---- MODULE Spec2Model ----
(***************************************************************************)
(* Sisyphus II: the client session cache (AuthContext.tsx: the axios       *)
(* response interceptor, checkAuth, login, logout, checkTokenExpiration),  *)
(* the server's refresh-token exchange and the daily reset window.         *)
(***************************************************************************)
EXTENDS Integers, Sequences, FiniteSets, TLC

\* ------------------------------------------------------------------ bounds
\* HTTP requests the client creates in one run.
MaxReq == 5
\* Token pairs the server issues in one run (pair 1 is the stored session).
MaxPair == 3

\* ------------------------------------------------------------- vocabulary
\* localStorage.getItem(...) yields null for an absent key.
NoToken == 0

\* Task.completed_at / Task.due_date: string | null.
NoTime == 0

REFRESH_URL == "/api/auth/refresh"
LOGIN_URL == "/api/auth/login"
ME_URL == "/api/auth/me"
TASKS_URL == "/api/tasks/"
\* `/api/tasks/${taskId}/toggle`; the task id is in the request's data.
TOGGLE_URL == "/api/tasks/toggle"

\* Why the server answered 401 (the server is an input of the client).
CausesFor(url) ==
    IF url = LOGIN_URL THEN {"bad_credentials"}
    ELSE IF url = REFRESH_URL THEN {"refresh_rejected"}
    ELSE {"expired", "bad_signature"}

VARIABLES
    ls,          \* localStorage: [access_token, refresh_token]
    authHeader,  \* axios.defaults.headers.common['Authorization']
    token,       \* AuthProvider state: token
    user,        \* AuthProvider state: user (TRUE: non-null)
    isLoading,   \* AuthProvider state: isLoading
    location,    \* window.location.pathname
    reqs,        \* every HTTP request created so far, by id
    nextPair,    \* the next token pair the server issues
    lastEvent    \* what the last step handled

clientVars == <<ls, authHeader, token, user, isLoading, location, reqs, nextPair, lastEvent>>

VARIABLES
    srvValid,    \* server: the refresh tokens that can still be exchanged
    srvUsed,     \* server: the refresh tokens that were exchanged
    srvExpired,  \* server: the refresh tokens past their exp
    srvNext,     \* server: the next token pair to issue
    calls        \* server: the refresh() calls, by call id

serverVars == <<srvValid, srvUsed, srvExpired, srvNext, calls>>

VARIABLES
    account,     \* the user's reset_hour and reset_minute
    now,         \* the clock, seconds since the Unix epoch (UTC)
    window,      \* the ResetWindow last resolved
    task,        \* one task of the user
    lastClass    \* the classification last applied to the task

resetVars == <<account, now, window, task, lastClass>>

VARIABLES
    tasks,         \* DashboardPage state: tasks
    srvTasks,      \* server: the user's tasks
    showCompleted, \* DashboardPage state: showCompleted
    view,          \* what the last render shows for each task
    pass           \* one filter pass over tasks, task by task

dashVars == <<tasks, srvTasks, showCompleted, view, pass>>

VARIABLES
    issued,      \* server: the tokens TokenIssuer has issued
    verdict      \* server: the last verification and its result

tokenVars == <<issued, verdict>>

VARIABLES
    localStore,    \* localStorage of the origin, shared by its tabs
    tabs,          \* per tab: sessionStorage, memoryTokens, token state
    storageEvents, \* per tab: the storage events not yet handled
    lastOp,        \* the last operation on the token store
    loggedOut,     \* logout() has removed the tokens and nobody logged in since
    storeNext      \* the next token pair a login is answered with

storeVars == <<localStore, tabs, storageEvents, lastOp, loggedOut, storeNext>>

VARIABLES
    selectedTasks,  \* DashboardPage state: selectedTasks
    priorityFilter, \* DashboardPage state: priorityFilter (0: null)
    bulk            \* the last bulk operation and what it saved for its revert

selVars == <<selectedTasks, priorityFilter, bulk>>

vars == <<clientVars, serverVars, resetVars, dashVars, tokenVars, storeVars, selVars>>

\* ------------------------------------------------ the client as a record
Cur ==
    [ls |-> ls, hdr |-> authHeader, token |-> token, user |-> user,
     loading |-> isLoading, loc |-> location, reqs |-> reqs,
     next |-> nextPair, ev |-> lastEvent, reload |-> FALSE,
     tasks |-> tasks, srvTasks |-> srvTasks]

\* The step's effects become the next state.
Assign(s) ==
    /\ ls' = s.ls
    /\ authHeader' = s.hdr
    /\ token' = s.token
    /\ user' = s.user
    /\ isLoading' = s.loading
    /\ location' = s.loc
    /\ reqs' = s.reqs
    /\ nextPair' = s.next
    /\ lastEvent' = s.ev
    /\ tasks' = s.tasks
    /\ srvTasks' = s.srvTasks
    /\ UNCHANGED <<showCompleted, view, pass, serverVars, resetVars, tokenVars, storeVars, selVars>>

NoEvent == [kind |-> "none", id |-> 0, url |-> "", status |-> 0, owner |-> "", cause |-> ""]

\* One HTTP request: its axios config (url, Authorization header, _retry),
\* who awaits it, and what happened to it.
\*   owner  : the code awaiting the promise
\*   parent : for owner "icpt", the request whose interceptor awaits this one
\*   root   : for a replay, the request it replays (else 0)
\*   rt     : the refresh_token in the body of a refresh request
\*   cause  : for an interceptor refresh, the cause of the 401 that started it
\*   trigger: for a replay, the refresh request whose success started it
\*   st     : "inflight", "suspended" (its interceptor awaits a refresh),
\*            "replayed", "done"
\*   status, respAccess, respRefresh : the server's response
\*   res, via : what the caller of a root request received, and from which request
\*   data   : for a toggle request, the task id of its URL, what its caller
\*            keeps for the revert, and the task of the response
\*   applied : whether the server has applied the request
NoTask == [id |-> 0, is_completed |-> FALSE, completed_at |-> NoTime, due_date |-> NoTime]

NoData == [task |-> 0, snap |-> <<>>, group |-> 0, resp |-> NoTask]

Req(url, auth, retry, owner, parent, root, rt, cause, trigger) ==
    [url |-> url, auth |-> auth, retry |-> retry, owner |-> owner,
     parent |-> parent, root |-> root, rt |-> rt, cause |-> cause,
     trigger |-> trigger, st |-> "inflight", status |-> 0,
     respAccess |-> NoToken, respRefresh |-> NoToken, res |-> 0, via |-> 0,
     data |-> NoData, applied |-> FALSE]

Send(s, r) == [s EXCEPT !.reqs = Append(@, r)]

RootOf(s, id) == IF s.reqs[id].root # 0 THEN s.reqs[id].root ELSE id

\* ------------------------------------------------- token storage and state
\* localStorage.removeItem of both keys and delete of the default header.
ClearTokens(s) ==
    [s EXCEPT !.ls = [access_token |-> NoToken, refresh_token |-> NoToken],
              !.hdr = NoToken]

\* window.location.href = '/login': the browser leaves the page once the
\* running code has returned.
Navigate(s) == [s EXCEPT !.loc = "/login", !.reload = TRUE]

\* if (!window.location.pathname.includes('/login')) window.location.href = '/login'
Redirect(s) == IF s.loc # "/login" THEN Navigate(s) ELSE s

\* Mutant: the refresh token of the response is dropped, the old one kept.
StoreRefreshedKeepsOld(old, access, refresh) ==
    [access_token |-> access, refresh_token |-> old.refresh_token]

\* localStorage.setItem('access_token', ...); localStorage.setItem('refresh_token', ...)
StoreRefreshed(old, access, refresh) ==
    [access_token |-> access, refresh_token |-> refresh]

\* Mutant: the replay keeps the Authorization header of the failed request.
ReplayAuthStale(access, origAuth) == origAuth

\* error.config.headers['Authorization'] = `Bearer ${access_token}`
ReplayAuth(access, origAuth) == access

\* Mutant: the guard does not look at the URL.
ShouldRefreshAnyUrl(status, url) == status = 401

\* Mutant: the guard does not look at the status: any failed request is
\* followed by a refresh and a replay.
ShouldRefreshAnyStatus(status, url) == url # REFRESH_URL

\* The guard of the interceptor's refresh flow.
ShouldRefresh(status, url) == status = 401 /\ url # REFRESH_URL

\* Mutant: the _retry flag of the failed request is not looked at.
MayRefreshIgnoresRetry(refreshToken, retry) == refreshToken # NoToken

\* if (refreshToken && !error.config._retry)
MayRefresh(refreshToken, retry) == refreshToken # NoToken /\ ~retry

\* checkAuth up to its first await (the effect on [token, logout]).
checkAuth(s) ==
    IF s.token # NoToken
    THEN Send(s, Req(ME_URL, s.hdr, FALSE, "checkAuth", 0, 0, NoToken, "", 0))
    ELSE [s EXCEPT !.loading = FALSE]

\* Mutant: the effect on [token] does not run checkAuth again.
setTokenNoEffect(s, x) == [s EXCEPT !.token = x, !.hdr = x]

\* setToken and the effects of the render it causes: the default header
\* follows the token state, then checkAuth runs. No render for an equal value.
setToken(s, x) ==
    IF x = s.token THEN s
    ELSE checkAuth([s EXCEPT !.token = x, !.hdr = x])

logout(s) ==
    setToken([s EXCEPT !.ls = [access_token |-> NoToken, refresh_token |-> NoToken],
                       !.user = FALSE, !.hdr = NoToken], NoToken)

\* The page is loaded again at /login: the requests in flight are aborted,
\* AuthProvider starts from localStorage and its mount effects run.
Reload(s) ==
    checkAuth([s EXCEPT !.hdr = s.ls.access_token, !.token = s.ls.access_token,
                        !.user = FALSE, !.loading = TRUE, !.loc = "/login",
                        !.reqs = [i \in DOMAIN s.reqs |->
                                     IF s.reqs[i].st \in {"inflight", "suspended"}
                                     THEN [s.reqs[i] EXCEPT !.st = "aborted"]
                                     ELSE s.reqs[i]],
                        !.tasks = <<>>,
                        !.reload = FALSE])

\* Mutant: no route redirects.
RouteKeepsPath(s) == s

\* App's routes: the spinner while isLoading, else /dashboard for a user and
\* /login without one.
Route(s) ==
    IF s.loading THEN s
    ELSE [s EXCEPT !.loc = IF s.user THEN "/dashboard" ELSE "/login"]

\* What follows the running code: the navigation it asked for, then the render.
Settle(s) == Route(IF s.reload THEN Reload(s) ELSE s)

Commit(s) == Assign(Settle(s))

\* prev.map(task => task.id === taskId ? x : task)
ReplaceTask(ts, taskId, x) ==
    [i \in DOMAIN ts |-> IF ts[i].id = taskId THEN x ELSE ts[i]]

\* prev.map(task => tasksToUpdate.find(t => t.id === task.id) || task)
RestoreTasks(ts, tasksToUpdate) ==
    [i \in DOMAIN ts |->
        IF \E j \in DOMAIN tasksToUpdate : tasksToUpdate[j].id = ts[i].id
        THEN tasksToUpdate[CHOOSE j \in DOMAIN tasksToUpdate : tasksToUpdate[j].id = ts[i].id]
        ELSE ts[i]]

\* Promise.all has already rejected: an earlier request of the group failed.
GroupRejected(s, id) ==
    \E j \in DOMAIN s.reqs :
        /\ j # id
        /\ s.reqs[j].owner = "bulk"
        /\ s.reqs[j].root = 0
        /\ s.reqs[j].data.group = s.reqs[id].data.group
        /\ s.reqs[j].res \notin {0, 200}

\* ------------------------------------------------------ promise settlement
\* The promise awaited by the owner of request id settles with the response
\* of request via; the owner's code runs up to its next await.
RECURSIVE Deliver(_, _, _)
Deliver(s, id, via) ==
    LET q == s.reqs[id]
        v == s.reqs[via]
        ok == v.status = 200
        root == RootOf(s, id)
        s0 == [s EXCEPT !.reqs[root].res = v.status, !.reqs[root].via = via]
        stored == [s0 EXCEPT !.ls = StoreRefreshed(s0.ls, v.respAccess, v.respRefresh)]
    IN  CASE q.owner = "app" -> IF v.status = 401 THEN Navigate(s0) ELSE s0
          [] q.owner = "checkAuth" ->
                IF ok THEN [s0 EXCEPT !.user = TRUE, !.loading = FALSE]
                ELSE IF v.status = 401
                THEN IF s0.ls.refresh_token # NoToken
                     THEN Send(s0, Req(REFRESH_URL, s0.hdr, FALSE, "checkAuthRefresh",
                                       0, 0, s0.ls.refresh_token, "", 0))
                     ELSE logout(s0)
                ELSE [logout(s0) EXCEPT !.loading = FALSE]
          [] q.owner = "checkAuthRefresh" ->
                IF ok
                THEN setToken(Send(stored, Req(ME_URL, stored.hdr, FALSE, "checkAuthMe",
                                               0, 0, NoToken, "", 0)),
                              v.respAccess)
                ELSE IF v.status = 401 THEN logout(s0)
                ELSE [s0 EXCEPT !.loading = FALSE]
          [] q.owner = "checkAuthMe" ->
                IF ok THEN [s0 EXCEPT !.user = TRUE]
                ELSE IF v.status = 401 THEN logout(s0)
                ELSE [s0 EXCEPT !.loading = FALSE]
          [] q.owner = "login" ->
                IF ok
                THEN setToken(Send(stored, Req(ME_URL, stored.hdr, FALSE, "loginMe",
                                               0, 0, NoToken, "", 0)),
                              v.respAccess)
                ELSE [s0 EXCEPT !.loading = FALSE]
          [] q.owner = "loginMe" ->
                IF ok THEN [s0 EXCEPT !.user = TRUE, !.loading = FALSE]
                ELSE [s0 EXCEPT !.loading = FALSE]
          [] q.owner = "expiry" ->
                IF ok THEN setToken(stored, v.respAccess) ELSE s0
          [] q.owner = "toggle" ->
                IF ok THEN [s0 EXCEPT !.tasks = ReplaceTask(@, q.data.task, v.data.resp)]
                ELSE [s0 EXCEPT !.tasks = ReplaceTask(@, q.data.task, q.data.snap[1])]
          [] q.owner = "bulk" ->
                IF ok \/ GroupRejected(s, root) THEN s0
                ELSE [s0 EXCEPT !.tasks = RestoreTasks(@, q.data.snap)]
          [] q.owner = "icpt" ->
                LET p == s.reqs[q.parent]
                IN  IF ok
                    THEN Send([s EXCEPT
                                  !.ls = StoreRefreshed(s.ls, v.respAccess, v.respRefresh),
                                  !.hdr = v.respAccess,
                                  !.reqs[q.parent].st = "replayed"],
                              [Req(p.url, ReplayAuth(v.respAccess, p.auth), TRUE, p.owner,
                                   p.parent, RootOf(s, q.parent), p.rt, "", via)
                                 EXCEPT !.data = [p.data EXCEPT !.resp = NoTask]])
                    ELSE Deliver(
                             [(IF v.status = 401 THEN Redirect(ClearTokens(s))
                               ELSE ClearTokens(s))
                                 EXCEPT !.reqs[q.parent].st = "done"],
                             q.parent, q.parent)

\* The response interceptor's error handler for request id (its response is
\* already recorded), up to its first await or its return.
OnResponseError(s, id, cause) ==
    LET q == s.reqs[id]
    IN  IF ShouldRefresh(q.status, q.url)
        THEN IF MayRefresh(s.ls.refresh_token, q.retry)
             THEN Send([s EXCEPT !.reqs[id].retry = TRUE, !.reqs[id].st = "suspended"],
                       Req(REFRESH_URL, s.hdr, FALSE, "icpt", id, 0,
                           s.ls.refresh_token, cause, 0))
             ELSE Deliver(Redirect(ClearTokens(s)), id, id)
        ELSE Deliver(s, id, id)

\* ------------------------------------------------------------------ actions
InFlight == {i \in 1..Len(reqs) : reqs[i].st = "inflight"}

Received(s, id, status, access, refresh, cause) ==
    [s EXCEPT !.reqs[id].status = status, !.reqs[id].st = "done",
              !.reqs[id].respAccess = access, !.reqs[id].respRefresh = refresh,
              !.ev = [kind |-> "response", id |-> id, url |-> s.reqs[id].url, status |-> status,
                      owner |-> s.reqs[id].owner, cause |-> cause]]

IssuesPair(url) == url \in {REFRESH_URL, LOGIN_URL}

\* The server's toggle of a task at instant t: completed_at is set on the
\* transition to completed and cleared on the way back.
ServerToggle(tk, t) ==
    [tk EXCEPT !.is_completed = ~tk.is_completed,
               !.completed_at = IF ~tk.is_completed THEN t ELSE NoTime]

\* The server handles request id: a toggle request is applied to its task.
Applied(s, id) ==
    IF s.reqs[id].url = TOGGLE_URL
    THEN LET k == s.reqs[id].data.task
             new == ServerToggle(s.srvTasks[k], now)
         IN  [s EXCEPT !.srvTasks[k] = new,
                       !.reqs[id].applied = TRUE,
                       !.reqs[id].data.resp = new]
    ELSE s

\* The server answers 2xx; login and refresh answer with a new token pair.
RespondOk(id) ==
    /\ id \in InFlight
    /\ IssuesPair(reqs[id].url) => nextPair <= MaxPair
    /\ LET pair == IF IssuesPair(reqs[id].url) THEN nextPair ELSE NoToken
           s1 == Received(Cur, id, 200, pair, pair, "")
           s2 == IF IssuesPair(reqs[id].url) THEN [s1 EXCEPT !.next = @ + 1] ELSE s1
           s3 == Deliver(Applied(s2, id), id, id)
       IN  /\ Len(s3.reqs) <= MaxReq
           /\ Commit(s3)

\* The server applies a toggle request and its response is lost on the way.
RespondLost(id) ==
    /\ id \in InFlight
    /\ reqs[id].url = TOGGLE_URL
    /\ LET s1 == Applied(Received(Cur, id, 500, NoToken, NoToken, ""), id)
           s2 == OnResponseError(s1, id, "")
       IN  /\ Len(s2.reqs) <= MaxReq
           /\ Commit(s2)

\* The server answers 401.
RespondUnauthorized(id, cause) ==
    /\ id \in InFlight
    /\ cause \in CausesFor(reqs[id].url)
    /\ LET s1 == Received(Cur, id, 401, NoToken, NoToken, cause)
           s2 == OnResponseError(s1, id, cause)
       IN  /\ Len(s2.reqs) <= MaxReq
           /\ Commit(s2)

\* Any other failure: a 5xx response or no response at all.
RespondFailure(id) ==
    /\ id \in InFlight
    /\ LET s1 == Received(Cur, id, 500, NoToken, NoToken, "")
           s2 == OnResponseError(s1, id, "")
       IN  /\ Len(s2.reqs) <= MaxReq
           /\ Commit(s2)

Event(kind, url, owner) ==
    [kind |-> kind, id |-> 0, url |-> url, status |-> 0, owner |-> owner, cause |-> ""]

\* The dashboard sends an authenticated request.
AppRequest ==
    /\ user
    /\ ~isLoading
    /\ Len(reqs) < MaxReq
    /\ Commit([Send(Cur, Req(TASKS_URL, authHeader, FALSE, "app", 0, 0, NoToken, "", 0))
                 EXCEPT !.ev = Event("request", TASKS_URL, "app")])

\* Clicks of the user on the dashboard in one run.
MaxActs == 2

\* The toggle and bulk-complete calls made so far.
Acts ==
    Cardinality({i \in 1..Len(reqs) :
                    /\ reqs[i].url = TOGGLE_URL
                    /\ reqs[i].root = 0
                    /\ reqs[i].data.group \in {0, i}})

ToggleReq(s, taskId, snap, owner, group) ==
    [Req(TOGGLE_URL, s.hdr, FALSE, owner, 0, 0, NoToken, "", 0)
       EXCEPT !.data = [task |-> taskId, snap |-> snap, group |-> group, resp |-> NoTask]]

\* toggleTask(taskId): the optimistic update and the POST sent from it.
toggleTask(taskId) ==
    /\ user
    /\ ~isLoading
    /\ location = "/dashboard"
    /\ Len(reqs) < MaxReq
    /\ Acts < MaxActs
    /\ \E i \in DOMAIN tasks :
          /\ tasks[i].id = taskId
          /\ LET currentTask == tasks[i]
                 optimisticTask ==
                     [currentTask EXCEPT
                         !.is_completed = ~currentTask.is_completed,
                         !.completed_at = IF ~currentTask.is_completed THEN now ELSE NoTime]
                 s1 == [Cur EXCEPT !.tasks = ReplaceTask(@, taskId, optimisticTask)]
             IN  Commit([Send(s1, ToggleReq(s1, taskId, <<currentTask>>, "toggle", 0))
                           EXCEPT !.ev = Event("request", TOGGLE_URL, "toggle")])

RECURSIVE SendToggles(_, _, _, _)
SendToggles(s, taskIds, snap, group) ==
    IF taskIds = {} THEN s
    ELSE LET k == CHOOSE x \in taskIds : \A y \in taskIds : x <= y
         IN  SendToggles(Send(s, ToggleReq(s, k, snap, "bulk", group)),
                         taskIds \ {k}, snap, group)

\* handleBulkComplete(taskIds): the optimistic update and one toggle POST for
\* every selected id.
handleBulkComplete(taskIds) ==
    /\ user
    /\ ~isLoading
    /\ location = "/dashboard"
    /\ taskIds # {}
    /\ Len(reqs) + Cardinality(taskIds) <= MaxReq
    /\ Acts < MaxActs
    /\ LET tasksToUpdate == SelectSeq(tasks, LAMBDA tk : tk.id \in taskIds)
           updatedTasks ==
               [i \in DOMAIN tasks |->
                   IF tasks[i].id \in taskIds
                   THEN [tasks[i] EXCEPT !.is_completed = TRUE, !.completed_at = now]
                   ELSE tasks[i]]
           s1 == [Cur EXCEPT !.tasks = updatedTasks]
       IN  Commit([SendToggles(s1, taskIds, tasksToUpdate, Len(reqs) + 1)
                     EXCEPT !.ev = Event("request", TOGGLE_URL, "bulk")])

\* login(username, password) up to its first await.
Login ==
    /\ ~user
    /\ ~isLoading
    /\ Len(reqs) < MaxReq
    /\ Commit([Send([Cur EXCEPT !.loading = TRUE],
                    Req(LOGIN_URL, authHeader, FALSE, "login", 0, 0, NoToken, "", 0))
                 EXCEPT !.ev = Event("request", LOGIN_URL, "login")])

Logout ==
    /\ user
    /\ ~isLoading
    /\ Commit([logout(Cur) EXCEPT !.ev = Event("logout", "", "app")])

\* The 5-minute interval, at a reading of the clock less than five minutes
\* before the access token's exp.
CheckTokenExpiration ==
    /\ token # NoToken
    /\ ls.access_token # NoToken
    /\ ls.refresh_token # NoToken
    /\ Len(reqs) < MaxReq
    /\ Commit([Send(Cur, Req(REFRESH_URL, authHeader, FALSE, "expiry", 0, 0,
                             ls.refresh_token, "", 0))
                 EXCEPT !.ev = Event("request", REFRESH_URL, "expiry")])

\* The page loads: AuthProvider's initial state and its mount effects, with
\* either no stored session or the pair of an earlier session in localStorage.
Mounted(stored) ==
    checkAuth([ls |-> [access_token |-> stored, refresh_token |-> stored],
               hdr |-> stored, token |-> stored, user |-> FALSE,
               loading |-> TRUE,
               loc |-> IF stored = NoToken THEN "/login" ELSE "/dashboard",
               reqs |-> <<>>, next |-> stored + 1, ev |-> NoEvent, reload |-> FALSE,
               tasks |-> <<>>, srvTasks |-> <<>>])

InitClient(stored) ==
    LET s == Mounted(stored)
    IN  /\ ls = s.ls
        /\ authHeader = s.hdr
        /\ token = s.token
        /\ user = s.user
        /\ isLoading = s.loading
        /\ location = s.loc
        /\ reqs = s.reqs
        /\ nextPair = s.next
        /\ lastEvent = s.ev

\* The page loaded with a stored session and GET /api/auth/me answered 200:
\* the dashboard is shown.
InitClientSignedIn ==
    LET s0 == Mounted(1)
        s == Deliver(Received(s0, 1, 200, NoToken, NoToken, ""), 1, 1)
    IN  /\ ls = s.ls
        /\ authHeader = s.hdr
        /\ token = s.token
        /\ user = s.user
        /\ isLoading = s.loading
        /\ location = s.loc
        /\ reqs = s.reqs
        /\ nextPair = s.next
        /\ lastEvent = s.ev

\* ------------------------------------ server: SessionRefreshCoordinator
\* Concurrent refresh() calls in one run.
MaxCalls == 3

CallIds == 1..MaxCalls

NoCall == [tok |-> NoToken, pc |-> "idle", sawValid |-> FALSE,
           result |-> "none", pair |-> NoToken]

\* Mutant: the exchange leaves the presented token valid.
InvalidateNothing(valid, t) == valid

\* The presented refresh token stops being valid.
Invalidate(valid, t) == valid \ {t}

\* A caller presents refresh token t (0: a token the server never issued).
Present(c, t) ==
    /\ calls[c].pc = "idle"
    /\ t \in 0..(srvNext - 1)
    /\ calls' = [calls EXCEPT ![c] = [NoCall EXCEPT !.tok = t, !.pc = "presented"]]
    /\ UNCHANGED <<srvValid, srvUsed, srvExpired, srvNext, clientVars, resetVars, dashVars, tokenVars, storeVars, selVars>>

\* verify(token): signature and expiry; reads the token's record.
Verify(c) ==
    /\ calls[c].pc = "presented"
    /\ LET t == calls[c].tok
       IN  calls' = [calls EXCEPT ![c] =
                IF t = NoToken THEN [@ EXCEPT !.pc = "done", !.result = "INVALID"]
                ELSE IF t \in srvExpired THEN [@ EXCEPT !.pc = "done", !.result = "EXPIRED"]
                ELSE [@ EXCEPT !.pc = "verified", !.sawValid = (t \in srvValid)]]
    /\ UNCHANGED <<srvValid, srvUsed, srvExpired, srvNext, clientVars, resetVars, dashVars, tokenVars, storeVars, selVars>>

\* The atomic check-and-invalidate: one conditional update of the record.
Exchange(c) ==
    /\ calls[c].pc = "verified"
    /\ LET t == calls[c].tok
       IN  IF t \in srvValid
           THEN /\ srvNext <= MaxPair
                /\ srvValid' = Invalidate(srvValid, t) \cup {srvNext}
                /\ srvUsed' = srvUsed \cup {t}
                /\ srvNext' = srvNext + 1
                /\ calls' = [calls EXCEPT ![c] = [@ EXCEPT !.pc = "done", !.result = "PAIR",
                                                           !.pair = srvNext]]
           ELSE /\ calls' = [calls EXCEPT ![c] = [@ EXCEPT !.pc = "done", !.result = "REUSED"]]
                /\ UNCHANGED <<srvValid, srvUsed, srvNext>>
    /\ UNCHANGED <<srvExpired, clientVars, resetVars, dashVars, tokenVars, storeVars, selVars>>

\* Time passes the exp claim of refresh token t.
Expire(t) ==
    /\ t \in 1..(srvNext - 1)
    /\ t \notin srvExpired
    /\ srvExpired' = srvExpired \cup {t}
    /\ UNCHANGED <<srvValid, srvUsed, srvNext, calls, clientVars, resetVars, dashVars, tokenVars, storeVars, selVars>>

\* issue(userId) at login: pair 1 is live.
InitServer ==
    /\ srvValid = {1}
    /\ srvUsed = {}
    /\ srvExpired = {}
    /\ srvNext = 2
    /\ calls = [c \in CallIds |-> NoCall]

\* --------------------------------------------- reset window and classifier
\* Days of the clock's range.
MaxDay == 2

SecondsPerDay == 24 * 60 * 60

\* 2024-01-01T00:00:00Z
Epoch2024 == 19723 * SecondsPerDay

\* The instant d days after 2024-01-01 at hh:mm:ss UTC.
At(d, hh, mm, ss) == Epoch2024 + d * SecondsPerDay + hh * 3600 + mm * 60 + ss

\* The UTC date of an instant, as days since the epoch.
DateOf(t) == t \div SecondsPerDay

\* The date combined with reset_hour:reset_minute.
ResetInstant(date, u) == date * SecondsPerDay + u.reset_hour * 3600 + u.reset_minute * 60

\* Mutant: the reset instant itself still belongs to yesterday's window.
windowForLateBoundary(u, t) ==
    LET today == ResetInstant(DateOf(t), u)
    IN  IF t <= today
        THEN [start |-> today - SecondsPerDay, end |-> today]
        ELSE [start |-> today, end |-> today + SecondsPerDay]

\* Mutant: the window always starts at today's reset instant.
windowForToday(u, t) ==
    LET today == ResetInstant(DateOf(t), u)
    IN  [start |-> today, end |-> today + SecondsPerDay]

\* windowFor(user, now) -> ResetWindow, the half-open [start, end).
windowFor(u, t) ==
    LET today == ResetInstant(DateOf(t), u)
    IN  IF t < today
        THEN [start |-> today - SecondsPerDay, end |-> today]
        ELSE [start |-> today, end |-> today + SecondsPerDay]

NoWindow == [start |-> NoTime, end |-> NoTime]

\* The instants the clock takes: around midnight, around the user's reset
\* instant, and at other times of day, on each day of the range.
Instants(u) ==
    {At(d, 0, 0, 0) + o :
        d \in 0..MaxDay,
        o \in {0, 1, 12 * 3600, SecondsPerDay - 60, SecondsPerDay - 1}
              \cup ({ResetInstant(0, u) + k : k \in {-1, 0, 1}} \cap (0..(SecondsPerDay - 1)))}

\* --------------------------------------------- dashboard: the task list
\* Tasks on the dashboard.
MaxTasks == 2

\* Nothing rendered since the clock or the tasks changed.
NoView == <<>>

NoPass == [kind |-> "none", idx |-> 0, out |-> <<>>, clock |-> <<>>]

InitDashIdle ==
    /\ tasks = <<>>
    /\ srvTasks = <<>>
    /\ showCompleted = TRUE
    /\ view = NoView
    /\ pass = NoPass

NoVerdict == [token |-> <<>>, at |-> 0, result |-> [ok |-> FALSE, identity |-> 0, failure |-> "none"]]

InitTokenIdle ==
    /\ issued = {}
    /\ verdict = NoVerdict

InitResetIdle ==
    /\ window = NoWindow
    /\ task = [is_completed |-> FALSE, completed_at |-> NoTime, due_date |-> NoTime]
    /\ lastClass = [status |-> "none", at |-> NoTime,
                    before |-> task]

NoClass ==
    [status |-> "none", at |-> NoTime,
     before |-> [is_completed |-> FALSE, completed_at |-> NoTime, due_date |-> NoTime]]

\* The clock advances to the next instant it takes.
Tick ==
    /\ LET later == {x \in Instants(account) : x > now}
       IN  /\ later # {}
           /\ now' = CHOOSE t \in later : \A x \in later : t <= x
    /\ window' = NoWindow
    /\ lastClass' = NoClass
    /\ view' = NoView
    /\ UNCHANGED <<account, task, tasks, srvTasks, showCompleted, pass, clientVars, serverVars, tokenVars, storeVars, selVars>>

\* ResetScheduleResolver resolves the window of the current instant.
ResolveWindow ==
    /\ window = NoWindow
    /\ window' = windowFor(account, now)
    /\ UNCHANGED <<account, now, task, lastClass, clientVars, serverVars, dashVars, tokenVars, storeVars, selVars>>

\* "explicitly marked to persist (e.g., has a future due date still pending)"
Persists(tk, t) == tk.due_date # NoTime /\ tk.due_date > t

\* Mutant: the completion is compared by UTC calendar date, not by window.
classifyByCalendarDate(tk, w, t) ==
    IF tk.is_completed /\ DateOf(tk.completed_at) < DateOf(t)
    THEN IF Persists(tk, t)
         THEN [status |-> "CARRIED_OVER", task |-> tk]
         ELSE [status |-> "RESET",
               task |-> [tk EXCEPT !.is_completed = FALSE, !.completed_at = NoTime]]
    ELSE [status |-> "ACTIVE", task |-> tk]

\* Mutant: the classifier looks at completed_at only, not at the flag.
classifyIgnoresFlag(tk, w, t) ==
    IF tk.completed_at < w.start
    THEN IF Persists(tk, t)
         THEN [status |-> "CARRIED_OVER", task |-> tk]
         ELSE [status |-> "RESET",
               task |-> [tk EXCEPT !.is_completed = FALSE, !.completed_at = NoTime]]
    ELSE [status |-> "ACTIVE", task |-> tk]

\* classify(task, window) -> {ACTIVE, CARRIED_OVER, RESET}, with the task as
\* the reset leaves it.
classify(tk, w, t) ==
    IF tk.is_completed /\ tk.completed_at < w.start
    THEN IF Persists(tk, t)
         THEN [status |-> "CARRIED_OVER", task |-> tk]
         ELSE [status |-> "RESET",
               task |-> [tk EXCEPT !.is_completed = FALSE, !.completed_at = NoTime]]
    ELSE [status |-> "ACTIVE", task |-> tk]

\* The user toggles the task: completed_at is set on the transition to
\* completed and cleared on the way back.
ToggleTask ==
    /\ task' = [task EXCEPT !.is_completed = ~task.is_completed,
                            !.completed_at = IF ~task.is_completed THEN now ELSE NoTime]
    /\ lastClass' = NoClass
    /\ UNCHANGED <<account, now, window, clientVars, serverVars, dashVars, tokenVars, storeVars, selVars>>

\* The user edits the due date.
SetDueDate(d) ==
    /\ d # task.due_date
    /\ task' = [task EXCEPT !.due_date = d]
    /\ lastClass' = NoClass
    /\ UNCHANGED <<account, now, window, clientVars, serverVars, dashVars, tokenVars, storeVars, selVars>>

\* The daily reset applied to the task at the current instant.
ApplyReset ==
    /\ lastClass = NoClass
    /\ LET w == windowFor(account, now)
           c == classify(task, w, now)
       IN  /\ window' = w
           /\ task' = c.task
           /\ lastClass' = [status |-> c.status, at |-> now, before |-> task]
    /\ UNCHANGED <<account, now, clientVars, serverVars, dashVars, tokenVars, storeVars, selVars>>

\* ------------------------------------------- dashboard: what is overdue
\* Math.ceil(x / d) for d > 0; JavaScript's -0 compares equal to 0.
Ceil(x, d) == -((-x) \div d)

\* Math.ceil((due.getTime() - today.getTime()) / (1000 * 60 * 60 * 24))
diffDays(due, today) == Ceil(due - today, SecondsPerDay)

\* The callback of DashboardPage's overdueCount.
overdueCount(tk, today) ==
    IF tk.is_completed \/ tk.due_date = NoTime THEN FALSE
    ELSE tk.due_date < today

\* The callback of TaskAnalytics' overdueTasks.
overdueTasks(tk, today) ==
    IF tk.is_completed \/ tk.due_date = NoTime THEN FALSE
    ELSE tk.due_date < today

\* TaskItem's getDueDateStatus(dueDate).status
getDueDateStatus(dueDate, today) ==
    IF dueDate = NoTime THEN "no_due_date"
    ELSE LET d == diffDays(dueDate, today)
         IN  IF d < 0 THEN "overdue"
             ELSE IF d = 0 THEN "due_today"
             ELSE IF d = 1 THEN "due_tomorrow"
             ELSE IF d <= 7 THEN "due_soon"
             ELSE "due_later"

\* TaskItem's overdue warning.
overdueWarning(tk, today) ==
    getDueDateStatus(tk.due_date, today) = "overdue" /\ ~tk.is_completed

\* The callback of filteredTasks with dateFilter 'overdue' and the search,
\* priority and category filters off: TRUE keeps the task in the list.
filteredTasks(tk, today, showC) ==
    IF ~showC /\ tk.is_completed THEN FALSE
    ELSE IF tk.due_date # NoTime
         THEN ~(diffDays(tk.due_date, today) >= 0)
         ELSE TRUE

\* One render of the dashboard with the 'overdue' filter on, every site
\* reading the same instant.
Render ==
    /\ view = NoView
    /\ tasks # <<>>
    /\ view' = [i \in 1..Len(tasks) |->
                   [count |-> overdueCount(tasks[i], now),
                    analytics |-> overdueTasks(tasks[i], now),
                    warning |-> overdueWarning(tasks[i], now),
                    listed |-> filteredTasks(tasks[i], now, showCompleted)]]
    /\ UNCHANGED <<tasks, srvTasks, showCompleted, pass, clientVars, serverVars, resetVars, tokenVars, storeVars, selVars>>

\* tasks.filter(callback) starts: overdueCount's pass, or filteredTasks' pass
\* with the 'overdue' date filter.
StartPass(kind) ==
    /\ tasks # <<>>
    /\ pass.kind = "none" \/ pass.idx = Len(tasks)
    /\ pass' = [kind |-> kind, idx |-> 0, out |-> <<>>, clock |-> <<>>]
    /\ UNCHANGED <<tasks, srvTasks, showCompleted, view, clientVars, serverVars, resetVars, tokenVars, storeVars, selVars>>

PassRunning == pass.kind # "none" /\ pass.idx < Len(tasks)

\* The callback runs for the next task: const today = new Date() reads the
\* clock in every call.
PassStep ==
    /\ PassRunning
    /\ LET tk == tasks[pass.idx + 1]
           today == now
           keep == IF pass.kind = "overdueCount" THEN overdueCount(tk, today)
                   ELSE filteredTasks(tk, today, showCompleted)
       IN  pass' = [pass EXCEPT !.idx = @ + 1,
                                !.out = Append(@, keep),
                                !.clock = Append(@, today)]
    /\ UNCHANGED <<tasks, srvTasks, showCompleted, view, clientVars, serverVars, resetVars, tokenVars, storeVars, selVars>>

\* Time passes; while a pass runs, no more than a second.
ViewTick ==
    /\ PassRunning => (now + 1) \in Instants(account)
    /\ Tick

\* The user switches "show completed".
SetShowCompleted ==
    /\ ~PassRunning
    /\ showCompleted' = ~showCompleted
    /\ view' = NoView
    /\ UNCHANGED <<tasks, srvTasks, pass, clientVars, serverVars, resetVars, tokenVars, storeVars, selVars>>

\* ------------------------------------- server: TokenIssuer / TokenVerifier
\* issue() calls in one run.
MaxIssued == 2

ACCESS_TOKEN_EXPIRE_MINUTES == 30

REFRESH_TOKEN_EXPIRE_DAYS == 7

\* The leeway of the expiry check, in seconds.
Leeway == 60

SECRET_KEY == "server-secret"

\* The signature of a payload under a key.
Sign(payload, key) == [key |-> key, payload |-> payload]

\* A token as it travels: header.payload.signature. parts is the number of
\* dot-separated segments, json says whether the payload segment decodes.
Encode(payload, sig) == [parts |-> 3, json |-> TRUE, payload |-> payload, sig |-> sig]

NewToken(userId, type, exp) ==
    LET payload == [sub |-> userId, exp |-> exp, type |-> type]
    IN  Encode(payload, Sign(payload, SECRET_KEY))

\* issue(userId) -> TokenPair at instant t.
issue(userId, t) ==
    [access |-> NewToken(userId, "access", t + ACCESS_TOKEN_EXPIRE_MINUTES * 60),
     refresh |-> NewToken(userId, "refresh", t + REFRESH_TOKEN_EXPIRE_DAYS * SecondsPerDay)]

IdentityOf(userId) == [ok |-> TRUE, identity |-> userId, failure |-> "none"]

Failure(f) == [ok |-> FALSE, identity |-> 0, failure |-> f]

\* Mutant: the leeway is subtracted, tokens expire early.
verifyExpiresEarly(tok, t) ==
    IF tok.parts # 3 \/ ~tok.json THEN Failure("MALFORMED")
    ELSE IF tok.sig # Sign(tok.payload, SECRET_KEY) THEN Failure("BAD_SIGNATURE")
    ELSE IF t >= tok.payload.exp - Leeway THEN Failure("EXPIRED")
    ELSE IdentityOf(tok.payload.sub)

\* verify(token) -> Result<Identity, {EXPIRED, MALFORMED, BAD_SIGNATURE}> at
\* instant t.
verify(tok, t) ==
    IF tok.parts # 3 \/ ~tok.json THEN Failure("MALFORMED")
    ELSE IF tok.sig # Sign(tok.payload, SECRET_KEY) THEN Failure("BAD_SIGNATURE")
    ELSE IF t >= tok.payload.exp + Leeway THEN Failure("EXPIRED")
    ELSE IdentityOf(tok.payload.sub)

\* What a caller can present besides t itself: t with its exp moved a day
\* later under the old signature, t re-signed with another key, t cut to two
\* segments, t with a payload that does not decode.
Tampered(t) ==
    LET later == [t.payload EXCEPT !.exp = @ + SecondsPerDay]
    IN  {[t EXCEPT !.payload = later],
         [t EXCEPT !.sig = Sign(t.payload, "other-secret")],
         [t EXCEPT !.parts = 2],
         [t EXCEPT !.json = FALSE]}

\* The instants the clock takes around the exp claims of the issued tokens.
TokenInstants ==
    {At(0, 0, 0, 0) + k * 600 : k \in 0..MaxIssued}
    \cup {t.payload.exp + o : t \in issued, o \in {-1, 0, Leeway - 1, Leeway, Leeway + 1}}

TokenTick ==
    /\ LET later == {x \in TokenInstants : x > now}
       IN  /\ later # {}
           /\ now' = CHOOSE t \in later : \A x \in later : t <= x
    /\ verdict' = NoVerdict
    /\ UNCHANGED <<account, window, task, lastClass, issued, clientVars, serverVars, dashVars, storeVars, selVars>>

\* TokenIssuer issues a pair at the current instant, for the next user that
\* signs in.
Issue ==
    /\ Cardinality(issued) < 2 * MaxIssued
    /\ LET pair == issue(Cardinality(issued) \div 2 + 1, now)
       IN  issued' = issued \cup {pair.access, pair.refresh}
    /\ verdict' = NoVerdict
    /\ UNCHANGED <<clientVars, serverVars, resetVars, dashVars, storeVars, selVars>>

\* TokenVerifier verifies a presented token at the current instant.
VerifyToken(tok) ==
    /\ verdict = NoVerdict
    /\ verdict' = [token |-> tok, at |-> now, result |-> verify(tok, now)]
    /\ UNCHANGED <<issued, clientVars, serverVars, resetVars, dashVars, storeVars, selVars>>

\* ------------------------------------- the three-level token store, by tab
\* Tabs of the application open in one browser.
NumTabs == 2

Tabs == 1..NumTabs

\* Logins in one run: the server issues pair 1, 2, ...
MaxLogins == 2

\* Storage events a tab can have waiting.
MaxEvents == 2

Keys == {"access_token", "refresh_token"}

NoStore == [access_token |-> NoToken, refresh_token |-> NoToken]

NoOp == [op |-> "none", tab |-> 0, key |-> "", value |-> NoToken]

\* a || b on string-or-null values
OrElse(a, b) == IF a # NoToken THEN a ELSE b

\* The three levels a tab sees: the shared localStorage, its own
\* sessionStorage and its own memoryTokens.
LevelsOf(tab) == [L |-> localStore, S |-> tabs[tab].session, M |-> tabs[tab].memory]

getStoredToken(st, key) == OrElse(st.L[key], OrElse(st.S[key], st.M[key]))

\* setItem on localStorage and sessionStorage, each in its own try/catch
\* (a throwing setItem leaves the storage as it was), then memoryTokens.
setStoredToken(st, key, value, throwsL, throwsS) ==
    [L |-> IF throwsL THEN st.L ELSE [st.L EXCEPT ![key] = value],
     S |-> IF throwsS THEN st.S ELSE [st.S EXCEPT ![key] = value],
     M |-> [st.M EXCEPT ![key] = value]]

\* removeItem on localStorage and sessionStorage, each in its own try/catch,
\* then delete on memoryTokens.
removeStoredToken(st, key, throwsL, throwsS) ==
    [L |-> IF throwsL THEN st.L ELSE [st.L EXCEPT ![key] = NoToken],
     S |-> IF throwsS THEN st.S ELSE [st.S EXCEPT ![key] = NoToken],
     M |-> [st.M EXCEPT ![key] = NoToken]]

\* The storage events a change of localStorage from old to new fires: one
\* for every key whose value changed, access_token first.
EventsOf(old, new) ==
    (IF old.access_token # new.access_token
     THEN <<[key |-> "access_token", oldValue |-> old.access_token,
             newValue |-> new.access_token]>>
     ELSE <<>>)
    \o
    (IF old.refresh_token # new.refresh_token
     THEN <<[key |-> "refresh_token", oldValue |-> old.refresh_token,
             newValue |-> new.refresh_token]>>
     ELSE <<>>)

\* The browser queues the events in every other tab.
Notify(tab, old, new) ==
    [t \in Tabs |-> IF t = tab THEN storageEvents[t]
                    ELSE storageEvents[t] \o EventsOf(old, new)]

\* There is room for the events of one more change in every tab.
Room == \A t \in Tabs : Len(storageEvents[t]) + 2 <= MaxEvents

\* The step of tab: its levels become st, its token state tok.
Stored(tab, st, tok, usr, op) ==
    /\ localStore' = st.L
    /\ tabs' = [tabs EXCEPT ![tab] = [session |-> st.S, memory |-> st.M,
                                      token |-> tok, user |-> usr,
                                      pending |-> tok # tabs[tab].token]]
    /\ storageEvents' = Notify(tab, localStore, st.L)
    /\ lastOp' = op

Op(op, tab, key, value) == [op |-> op, tab |-> tab, key |-> key, value |-> value]

\* login(): POST /api/auth/login answered with a pair, both tokens stored,
\* setToken, GET /api/auth/me answered 200.
StoreLogin(tab, throwsL, throwsS) ==
    /\ ~tabs[tab].user
    /\ Room
    /\ storeNext <= MaxLogins
    /\ LET pair == storeNext
           s1 == setStoredToken(LevelsOf(tab), "access_token", pair, throwsL, throwsS)
           s2 == setStoredToken(s1, "refresh_token", pair, throwsL, throwsS)
       IN  Stored(tab, s2, pair, TRUE, Op("login", tab, "", pair))
    /\ loggedOut' = FALSE
    /\ storeNext' = storeNext + 1
    /\ UNCHANGED <<clientVars, serverVars, resetVars, dashVars, tokenVars, selVars>>

\* logout(): both tokens removed, setToken(null), setUser(null); the effect
\* on [token] is left to run.
StoreLogout(tab, throwsL, throwsS) ==
    /\ tabs[tab].user
    /\ Room
    /\ LET s1 == removeStoredToken(LevelsOf(tab), "access_token", throwsL, throwsS)
           s2 == removeStoredToken(s1, "refresh_token", throwsL, throwsS)
       IN  /\ Stored(tab, s2, NoToken, FALSE, Op("logout", tab, "", NoToken))
           /\ loggedOut' = (s2.L = NoStore)
    /\ UNCHANGED storeNext
    /\ UNCHANGED <<clientVars, serverVars, resetVars, dashVars, tokenVars, selVars>>

\* handleStorageChange(e) for the oldest waiting event of tab.
HandleStorageChange(tab, throwsL, throwsS) ==
    /\ storageEvents[tab] # <<>>
    /\ LET e == Head(storageEvents[tab])
           \* the event is about localStorage: the other storage is sessionStorage
           backupToken == tabs[tab].session[e.key]
           restore == e.newValue = NoToken /\ e.oldValue # NoToken /\ backupToken # NoToken
           st == IF restore
                 THEN setStoredToken(LevelsOf(tab), e.key, backupToken, throwsL, throwsS)
                 ELSE LevelsOf(tab)
           tok == IF restore /\ e.key = "access_token" THEN backupToken
                  ELSE tabs[tab].token
       IN  /\ restore \/ (~throwsL /\ ~throwsS)
           /\ localStore' = st.L
           /\ tabs' = [tabs EXCEPT ![tab].session = st.S, ![tab].memory = st.M,
                                   ![tab].token = tok,
                                   ![tab].pending = @ \/ tok # tabs[tab].token]
           /\ storageEvents' =
                  [t \in Tabs |->
                      IF t = tab THEN Tail(storageEvents[t])
                      ELSE storageEvents[t] \o EventsOf(localStore, st.L)]
           /\ \A t \in Tabs : Len(storageEvents'[t]) <= MaxEvents
           /\ lastOp' = Op("storage", tab, e.key, IF restore THEN backupToken ELSE NoToken)
    /\ UNCHANGED <<loggedOut, storeNext>>
    /\ UNCHANGED <<clientVars, serverVars, resetVars, dashVars, tokenVars, selVars>>

\* checkTokenRestoration(), every 30 seconds.
CheckTokenRestoration(tab) ==
    /\ localStore.access_token = NoToken
    /\ tabs[tab].session.access_token # NoToken
    /\ tabs[tab].token = NoToken
    /\ tabs' = [tabs EXCEPT ![tab].token = tabs[tab].session.access_token,
                            ![tab].pending = TRUE]
    /\ lastOp' = Op("restore", tab, "access_token", tabs[tab].session.access_token)
    /\ UNCHANGED <<localStore, storageEvents, loggedOut, storeNext>>
    /\ UNCHANGED <<clientVars, serverVars, resetVars, dashVars, tokenVars, selVars>>

\* The effect on [token]: checkAuth. Without a token state it takes the
\* access token of sessionStorage as the token state, if there is one, and
\* returns; with one, GET /api/auth/me is answered 200.
CheckAuthEffect(tab) ==
    /\ tabs[tab].pending
    /\ LET sessionToken == tabs[tab].session.access_token
       IN  IF tabs[tab].token = NoToken
           THEN tabs' = [tabs EXCEPT ![tab].token = sessionToken,
                                     ![tab].pending = sessionToken # NoToken]
           ELSE tabs' = [tabs EXCEPT ![tab].user = TRUE, ![tab].pending = FALSE]
    /\ lastOp' = Op("checkAuth", tab, "access_token", tabs'[tab].token)
    /\ UNCHANGED <<localStore, storageEvents, loggedOut, storeNext>>
    /\ UNCHANGED <<clientVars, serverVars, resetVars, dashVars, tokenVars, selVars>>

\* The tab is loaded again: memoryTokens starts empty, sessionStorage is
\* kept, the token state starts as getStoredToken('access_token') and
\* GET /api/auth/me is answered 200 for it.
ReloadTab(tab) ==
    /\ lastOp.op # "reload" \/ lastOp.tab # tab
    /\ LET st == [LevelsOf(tab) EXCEPT !.M = NoStore]
           tok == getStoredToken(st, "access_token")
       IN  /\ tabs' = [tabs EXCEPT ![tab] = [session |-> st.S, memory |-> NoStore,
                                             token |-> tok, user |-> tok # NoToken,
                                             pending |-> FALSE]]
           /\ lastOp' = Op("reload", tab, "", tok)
    /\ UNCHANGED <<localStore, storageEvents, loggedOut, storeNext>>
    /\ UNCHANGED <<clientVars, serverVars, resetVars, dashVars, tokenVars, selVars>>

\* ------------------------------ dashboard: selection and bulk operations
\* Priorities a task can have.
MaxPriority == 2

Priorities == 1..MaxPriority

\* priorityFilter === null
NoPriority == 0

NoBulk == [op |-> "none", ids |-> <<>>, shown |-> <<>>, saved |-> <<>>, pending |-> FALSE]

\* arr.includes(x)
includes(arr, x) == \E i \in DOMAIN arr : arr[i] = x

\* The filteredTasks memo with the search off and the category and date
\* filters on 'all': the list passed to BulkOperations as tasks.
filteredList(tks, showC, pf) ==
    SelectSeq(tks, LAMBDA tk : /\ ~(~showC /\ tk.is_completed)
                               /\ ~(pf # NoPriority /\ tk.priority # pf))

\* BulkOperations' props.tasks in the current render.
PropTasks == filteredList(tasks, showCompleted, priorityFilter)

\* tasks.map(task => task.id)
allTaskIds(tks) == [i \in DOMAIN tks |-> tks[i].id]

selectedCount == Len(selectedTasks)

isAllSelected(tks) == selectedCount = Len(tks) /\ Len(tks) > 0

isPartiallySelected(tks) == selectedCount > 0 /\ selectedCount < Len(tks)

\* BulkOperations renders: showBulkOperations is on and tasks.length > 0.
BulkShown == PropTasks # <<>>

handleSelectAll ==
    /\ BulkShown
    /\ selectedTasks' = IF isAllSelected(PropTasks) THEN <<>> ELSE allTaskIds(PropTasks)
    /\ UNCHANGED <<priorityFilter, bulk>>
    /\ UNCHANGED <<clientVars, serverVars, resetVars, dashVars, tokenVars, storeVars>>

\* The checkbox of one row of BulkOperations' list.
handleSelectTask(taskId) ==
    /\ BulkShown
    /\ includes(allTaskIds(PropTasks), taskId)
    /\ selectedTasks' = IF includes(selectedTasks, taskId)
                        THEN SelectSeq(selectedTasks, LAMBDA id : id # taskId)
                        ELSE Append(selectedTasks, taskId)
    /\ UNCHANGED <<priorityFilter, bulk>>
    /\ UNCHANGED <<clientVars, serverVars, resetVars, dashVars, tokenVars, storeVars>>

\* "Clear": onSelectionChange([]).
ClearSelection ==
    /\ BulkShown
    /\ selectedCount > 0
    /\ selectedTasks' = <<>>
    /\ UNCHANGED <<priorityFilter, bulk>>
    /\ UNCHANGED <<clientVars, serverVars, resetVars, dashVars, tokenVars, storeVars>>

\* SearchAndFilters: onPriorityFilterChange.
setPriorityFilter(pf) ==
    /\ pf # priorityFilter
    /\ priorityFilter' = pf
    /\ UNCHANGED <<selectedTasks, bulk>>
    /\ UNCHANGED <<clientVars, serverVars, resetVars, dashVars, tokenVars, storeVars>>

\* deleteTask(taskId) from a row of the list, DELETE /api/tasks/{id} answered
\* 2xx (any other answer leaves the state as it is).
deleteTask(taskId) ==
    /\ includes(allTaskIds(PropTasks), taskId)
    /\ tasks' = SelectSeq(tasks, LAMBDA tk : tk.id # taskId)
    /\ UNCHANGED <<srvTasks, showCompleted, view, pass, selVars>>
    /\ UNCHANGED <<clientVars, serverVars, resetVars, tokenVars, storeVars>>

\* The bulk menu is open: a selection exists, and the previous bulk operation
\* has been answered.
BulkMenu == BulkShown /\ selectedCount > 0 /\ ~bulk.pending

Bulk(op, saved) ==
    [op |-> op, ids |-> selectedTasks, shown |-> allTaskIds(PropTasks),
     saved |-> saved, pending |-> TRUE]

\* prevTasks.filter(task => taskIds.includes(task.id))
TasksIn(tks, taskIds) == SelectSeq(tks, LAMBDA tk : includes(taskIds, tk.id))

\* BulkOperations.handleBulkDelete: onBulkDelete(selectedTasks) with its
\* optimistic removal, then onSelectionChange([]).
BulkDelete ==
    /\ BulkMenu
    /\ tasks' = SelectSeq(tasks, LAMBDA tk : ~includes(selectedTasks, tk.id))
    /\ bulk' = Bulk("delete", TasksIn(tasks, selectedTasks))
    /\ selectedTasks' = <<>>
    /\ UNCHANGED <<srvTasks, showCompleted, view, pass, priorityFilter>>
    /\ UNCHANGED <<clientVars, serverVars, resetVars, tokenVars, storeVars>>

\* BulkOperations.handleBulkComplete: onBulkComplete(selectedTasks) with its
\* optimistic update, then onSelectionChange([]).
BulkComplete ==
    /\ BulkMenu
    /\ tasks' = [i \in DOMAIN tasks |->
                    IF includes(selectedTasks, tasks[i].id)
                    THEN [tasks[i] EXCEPT !.is_completed = TRUE, !.completed_at = now]
                    ELSE tasks[i]]
    /\ bulk' = Bulk("complete", TasksIn(tasks, selectedTasks))
    /\ selectedTasks' = <<>>
    /\ UNCHANGED <<srvTasks, showCompleted, view, pass, priorityFilter>>
    /\ UNCHANGED <<clientVars, serverVars, resetVars, tokenVars, storeVars>>

\* BulkOperations.handleBulkPriorityChange: onBulkPriorityChange(selectedTasks,
\* priority) with its optimistic update; the selection stays.
BulkPriorityChange(priority) ==
    /\ BulkMenu
    /\ tasks' = [i \in DOMAIN tasks |->
                    IF includes(selectedTasks, tasks[i].id)
                    THEN [tasks[i] EXCEPT !.priority = priority]
                    ELSE tasks[i]]
    /\ bulk' = Bulk("priority", TasksIn(tasks, selectedTasks))
    /\ UNCHANGED <<srvTasks, showCompleted, view, pass, selectedTasks, priorityFilter>>
    /\ UNCHANGED <<clientVars, serverVars, resetVars, tokenVars, storeVars>>

\* Promise.all of the bulk requests resolves.
BulkResolved ==
    /\ bulk.pending
    /\ bulk' = [bulk EXCEPT !.pending = FALSE]
    /\ UNCHANGED <<selectedTasks, priorityFilter>>
    /\ UNCHANGED <<clientVars, serverVars, resetVars, dashVars, tokenVars, storeVars>>

\* Promise.all of the bulk requests rejects: the catch reverts the optimistic
\* update.
BulkRejected ==
    /\ bulk.pending
    /\ tasks' = IF bulk.op = "delete" THEN tasks \o bulk.saved
                ELSE RestoreTasks(tasks, bulk.saved)
    /\ bulk' = [bulk EXCEPT !.pending = FALSE]
    /\ UNCHANGED <<srvTasks, showCompleted, view, pass, selectedTasks, priorityFilter>>
    /\ UNCHANGED <<clientVars, serverVars, resetVars, tokenVars, storeVars>>

InitSelIdle ==
    /\ selectedTasks = <<>>
    /\ priorityFilter = NoPriority
    /\ bulk = NoBulk

InitStoreIdle ==
    /\ localStore = NoStore
    /\ tabs = [t \in Tabs |-> [session |-> NoStore, memory |-> NoStore,
                               token |-> NoToken, user |-> FALSE, pending |-> FALSE]]
    /\ storageEvents = [t \in Tabs |-> <<>>]
    /\ lastOp = NoOp
    /\ loggedOut = FALSE
    /\ storeNext = 1

InitIdle ==
    /\ InitServer
    /\ InitDashIdle
    /\ InitTokenIdle
    /\ InitStoreIdle
    /\ InitSelIdle
    /\ InitResetIdle
    /\ account = [reset_hour |-> 0, reset_minute |-> 0]
    /\ now = At(0, 0, 0, 0)

Init ==
    /\ \E stored \in {NoToken, 1} : InitClient(stored)
    /\ InitIdle

Next ==
    \/ \E id \in 1..MaxReq : RespondOk(id)
    \/ \E id \in 1..MaxReq, cause \in {"expired", "bad_signature", "bad_credentials",
                                       "refresh_rejected"} : RespondUnauthorized(id, cause)
    \/ \E id \in 1..MaxReq : RespondFailure(id)
    \/ AppRequest
    \/ Login
    \/ Logout
    \/ CheckTokenExpiration

Spec == Init /\ [][Next]_vars


\* A network partition: every request is answered or fails in the end,
\* except that a refresh request may stay without any response.
AnswerOther ==
    \E id \in 1..MaxReq :
        /\ id \in InFlight
        /\ reqs[id].url # REFRESH_URL
        /\ \/ RespondOk(id)
           \/ RespondFailure(id)
           \/ \E cause \in CausesFor(reqs[id].url) : RespondUnauthorized(id, cause)

SpecPartition == Init /\ [][Next]_vars /\ WF_vars(AnswerOther)

\* Every request issued is answered or fails in the end.
Answer ==
    \E id \in 1..MaxReq :
        /\ id \in InFlight
        /\ \/ RespondOk(id)
           \/ RespondFailure(id)
           \/ \E cause \in CausesFor(reqs[id].url) : RespondUnauthorized(id, cause)

\* Runs of the 5-minute interval in one run.
MaxChecks == 1

Checks == Cardinality({i \in 1..Len(reqs) : reqs[i].owner = "expiry"})

\* The page loads at /login or /dashboard, with or without a stored session.
InitMount ==
    /\ \E stored \in {NoToken, 1}, path \in {"/login", "/dashboard"} :
           LET s == Route([Mounted(stored) EXCEPT !.loc = path])
           IN  /\ ls = s.ls
               /\ authHeader = s.hdr
               /\ token = s.token
               /\ user = s.user
               /\ isLoading = s.loading
               /\ location = s.loc
               /\ reqs = s.reqs
               /\ nextPair = s.next
               /\ lastEvent = s.ev
    /\ InitIdle

\* The page loads and nobody touches it: the server's answers and the
\* 5-minute interval are all that happens.
NextMount ==
    \/ \E id \in 1..MaxReq : RespondOk(id)
    \/ \E id \in 1..MaxReq : RespondUnauthorized(id, "expired")
    \/ \E id \in 1..MaxReq : RespondUnauthorized(id, "refresh_rejected")
    \/ \E id \in 1..MaxReq : RespondFailure(id)
    \/ Checks < MaxChecks /\ CheckTokenExpiration

SpecMount == InitMount /\ [][NextMount]_vars /\ WF_vars(Answer)

\* The refresh-token exchange on its own.
InitClientIdle ==
    /\ ls = [access_token |-> NoToken, refresh_token |-> NoToken]
    /\ authHeader = NoToken
    /\ token = NoToken
    /\ user = FALSE
    /\ isLoading = FALSE
    /\ location = "/login"
    /\ reqs = <<>>
    /\ nextPair = 1
    /\ lastEvent = NoEvent

InitRefresh ==
    /\ InitClientIdle
    /\ InitServer
    /\ InitDashIdle
    /\ InitTokenIdle
    /\ InitStoreIdle
    /\ InitSelIdle
    /\ InitResetIdle
    /\ account = [reset_hour |-> 0, reset_minute |-> 0]
    /\ now = At(0, 0, 0, 0)

NextRefresh ==
    \/ \E c \in CallIds, t \in 0..MaxPair : Present(c, t)
    \/ \E c \in CallIds : Verify(c)
    \/ \E c \in CallIds : Exchange(c)
    \/ \E t \in 1..MaxPair : Expire(t)

SpecRefresh == InitRefresh /\ [][NextRefresh]_vars

\* The reset window on its own, for every reset time of day.
InitWindow ==
    /\ InitClientIdle
    /\ InitServer
    /\ InitDashIdle
    /\ InitTokenIdle
    /\ InitStoreIdle
    /\ InitSelIdle
    /\ InitResetIdle
    /\ account \in [reset_hour : 0..23, reset_minute : 0..59]
    /\ now = At(0, 0, 0, 0)

NextWindow ==
    \/ Tick
    \/ ResolveWindow

SpecWindow == InitWindow /\ [][NextWindow]_vars

\* The classifier over one task, for reset times at midnight, in the
\* morning and just before midnight.
ResetTimes == {<<0, 0>>, <<9, 30>>, <<23, 59>>}

DueDates == {NoTime, At(1, 0, 0, 0), At(MaxDay + 1, 0, 0, 0)}

InitTask ==
    /\ InitClientIdle
    /\ InitServer
    /\ InitDashIdle
    /\ InitTokenIdle
    /\ InitStoreIdle
    /\ InitSelIdle
    /\ InitResetIdle
    /\ \E r \in ResetTimes : account = [reset_hour |-> r[1], reset_minute |-> r[2]]
    /\ now = At(0, 0, 0, 0)

NextTask ==
    \/ Tick
    \/ ToggleTask
    \/ \E d \in DueDates : SetDueDate(d)
    \/ ApplyReset

SpecTask == InitTask /\ [][NextTask]_vars

\* The dashboard's displays over a fetched task list.
ViewDueDates == {NoTime, At(1, 0, 0, 0), At(2, 0, 0, 0)}

FetchedTasks ==
    {[id |-> i, is_completed |-> c, completed_at |-> IF c THEN At(0, 0, 0, 0) ELSE NoTime,
      due_date |-> d] : i \in 1..MaxTasks, c \in BOOLEAN, d \in ViewDueDates}

InitView ==
    /\ InitClientSignedIn
    /\ InitServer
    /\ InitResetIdle
    /\ account = [reset_hour |-> 0, reset_minute |-> 0]
    /\ now = At(0, 0, 0, 0)
    /\ tasks \in {ts \in [1..MaxTasks -> FetchedTasks] : \A i \in 1..MaxTasks : ts[i].id = i}
    /\ srvTasks = tasks
    /\ showCompleted = TRUE
    /\ view = NoView
    /\ pass = NoPass
    /\ InitTokenIdle
    /\ InitStoreIdle
    /\ InitSelIdle

NextView ==
    \/ ViewTick
    \/ Render
    \/ SetShowCompleted
    \/ \E kind \in {"overdueCount", "filteredTasks"} : StartPass(kind)
    \/ PassStep

SpecView == InitView /\ [][NextView]_vars

\* Token issue and verification on their own.
InitToken ==
    /\ InitClientIdle
    /\ InitServer
    /\ InitResetIdle
    /\ InitDashIdle
    /\ InitTokenIdle
    /\ InitStoreIdle
    /\ InitSelIdle
    /\ account = [reset_hour |-> 0, reset_minute |-> 0]
    /\ now = At(0, 0, 0, 0)

NextToken ==
    \/ TokenTick
    \/ Issue
    \/ \E t \in issued : VerifyToken(t)
    \/ \E t \in issued : \E x \in Tampered(t) : VerifyToken(x)

SpecToken == InitToken /\ [][NextToken]_vars

\* The dashboard of a signed-in user: toggles and bulk completion through the
\* interceptor. Every second task was completed at midnight; it is noon.
DashTasks ==
    [i \in 1..MaxTasks |->
        [id |-> i, is_completed |-> (i % 2 = 0),
         completed_at |-> IF i % 2 = 0 THEN At(0, 0, 0, 0) ELSE NoTime,
         due_date |-> NoTime]]

InitDash ==
    /\ InitClientSignedIn
    /\ InitServer
    /\ InitResetIdle
    /\ InitTokenIdle
    /\ InitStoreIdle
    /\ InitSelIdle
    /\ account = [reset_hour |-> 0, reset_minute |-> 0]
    /\ now = At(0, 12, 0, 0)
    /\ tasks = DashTasks
    /\ srvTasks = tasks
    /\ showCompleted = TRUE
    /\ view = NoView
    /\ pass = NoPass

NextDash ==
    \/ \E k \in 1..MaxTasks : toggleTask(k)
    \/ \E ids \in SUBSET (1..MaxTasks) : handleBulkComplete(ids)
    \/ \E id \in 1..MaxReq : RespondOk(id)
    \/ \E id \in 1..MaxReq : RespondUnauthorized(id, "expired")
    \/ \E id \in 1..MaxReq : RespondUnauthorized(id, "refresh_rejected")
    \/ \E id \in 1..MaxReq : RespondFailure(id)
    \/ \E id \in 1..MaxReq : RespondLost(id)

SpecDash == InitDash /\ [][NextDash]_vars

\* The dashboard of a signed-in user with the bulk operations open: every
\* second task is completed, the priorities alternate.
SelectTasks ==
    [i \in 1..MaxTasks |->
        [id |-> i, is_completed |-> (i % 2 = 0),
         completed_at |-> IF i % 2 = 0 THEN At(0, 0, 0, 0) ELSE NoTime,
         due_date |-> NoTime,
         priority |-> ((i - 1) % MaxPriority) + 1]]

InitSelect ==
    /\ InitClientSignedIn
    /\ InitServer
    /\ InitResetIdle
    /\ InitTokenIdle
    /\ InitStoreIdle
    /\ InitSelIdle
    /\ account = [reset_hour |-> 0, reset_minute |-> 0]
    /\ now = At(0, 12, 0, 0)
    /\ tasks = SelectTasks
    /\ srvTasks = tasks
    /\ showCompleted = TRUE
    /\ view = NoView
    /\ pass = NoPass

NextSelect ==
    \/ handleSelectAll
    \/ \E k \in 1..MaxTasks : handleSelectTask(k)
    \/ ClearSelection
    \/ SetShowCompleted
    \/ \E pf \in Priorities \cup {NoPriority} : setPriorityFilter(pf)
    \/ \E k \in 1..MaxTasks : deleteTask(k)
    \/ BulkDelete
    \/ BulkComplete
    \/ \E p \in Priorities : BulkPriorityChange(p)
    \/ BulkResolved
    \/ BulkRejected

SpecSelect == InitSelect /\ [][NextSelect]_vars

\* ------------------------------------------------------------------ claims
Ids == 1..Len(reqs)

RefreshIds == {i \in Ids : reqs[i].url = REFRESH_URL}

HandledRefresh(ev) == ev.kind = "response" /\ ev.url = REFRESH_URL

\* C1: when several requests fail because the access token expired, only one
\* refresh request reaches the server: at most one refresh started by the
\* interceptor for the cause "expired" is in flight at any time.
C1_SingleRefreshInFlight ==
    Cardinality({i \in RefreshIds : /\ reqs[i].owner = "icpt"
                                    /\ reqs[i].cause = "expired"
                                    /\ reqs[i].st = "inflight"}) <= 1

\* C2: after a successful refresh the original request is replayed with the
\* access token of the refresh response in its Authorization header, and the
\* caller of the original request receives the response of the replay.
C2_ReplayWithNewToken ==
    /\ \A f \in RefreshIds :
          (reqs[f].owner = "icpt" /\ reqs[f].status = 200) =>
              \E i \in Ids : reqs[i].trigger = f /\ reqs[i].root = reqs[f].parent
    /\ \A i \in Ids :
        reqs[i].trigger # 0 =>
            LET r == reqs[i].root
                f == reqs[i].trigger
            IN  /\ reqs[f].url = REFRESH_URL /\ reqs[f].status = 200
                /\ reqs[i].auth = reqs[f].respAccess
                /\ reqs[i].url = reqs[r].url
                /\ reqs[i].st = "inflight" => reqs[r].res = 0
                /\ reqs[i].st = "done" =>
                       reqs[r].via = i /\ reqs[r].res = reqs[i].status

C2_Witness ==
    \E i \in Ids :
        /\ reqs[i].trigger # 0
        /\ reqs[i].owner = "app"
        /\ reqs[i].status = 200
        /\ reqs[reqs[i].root].res = 200
        /\ reqs[i].auth # reqs[reqs[i].root].auth

\* C3: after every refresh failure the access token and the refresh token are
\* gone from localStorage and the default Authorization header is removed.
C3_RefreshFailureClearsSession ==
    (HandledRefresh(lastEvent) /\ lastEvent.status # 200) =>
        /\ ls.access_token = NoToken
        /\ ls.refresh_token = NoToken
        /\ authHeader = NoToken

\* C4: handling a 401 of the refresh endpoint never sends another refresh
\* request, whoever sent the refresh (interceptor, checkAuth,
\* checkTokenExpiration).
C4_NoRefreshOfRefresh ==
    [][(HandledRefresh(lastEvent') /\ lastEvent'.status = 401) =>
           Cardinality(RefreshIds') = Cardinality(RefreshIds)]_vars

C4_Witness ==
    /\ HandledRefresh(lastEvent)
    /\ lastEvent.status = 401
    /\ lastEvent.owner = "icpt"
    /\ \E i \in RefreshIds : reqs[i].owner = "expiry" /\ reqs[i].status = 401

\* C5: the interceptor starts a refresh only for a 401 whose cause is
\* "access token expired".
C5_RefreshOnlyWhenExpired ==
    \A i \in RefreshIds : reqs[i].owner = "icpt" => reqs[i].cause = "expired"

\* The refresh tokens that a successful refresh has exchanged.
Exchanged == {reqs[i].rt : i \in {j \in RefreshIds : reqs[j].status = 200}}

\* C6: after a successful refresh the stored refresh token is the one of the
\* response; a refresh token that was exchanged is never the stored one again
\* and no request sent afterwards presents it.
C6_RefreshTokenOverwritten ==
    /\ [](ls.refresh_token \notin Exchanged)
    /\ []((HandledRefresh(lastEvent) /\ lastEvent.status = 200) =>
             ls.refresh_token = reqs[lastEvent.id].respRefresh)
    /\ [][\A j \in Ids' \ Ids :
              reqs'[j].url = REFRESH_URL => reqs'[j].rt \notin Exchanged']_vars

C6_Witness ==
    \E i, j \in RefreshIds :
        /\ i < j
        /\ reqs[i].status = 200
        /\ reqs[i].rt # NoToken
        /\ reqs[j].rt = reqs[i].respRefresh
        /\ ls.refresh_token = reqs[i].respRefresh

\* The calls that presented refresh token t and went through the exchange.
Exchanging(t) ==
    {c \in CallIds : calls[c].tok = t /\ calls[c].pc = "done"
                     /\ calls[c].result \in {"PAIR", "REUSED"}}

Paired(t) == {c \in CallIds : calls[c].tok = t /\ calls[c].result = "PAIR"}

\* C7: of the refresh() calls that present one valid refresh token, exactly
\* one returns a new TokenPair and every other returns REUSED; an exchanged
\* token is not valid any more and no two calls receive pairs for one token.
C7_SingleUseRotation ==
    /\ srvUsed \cap srvValid = {}
    /\ \A t \in 1..(srvNext - 1) :
          /\ Cardinality(Paired(t)) <= 1
          /\ Exchanging(t) # {} => Cardinality(Paired(t)) = 1
          /\ Paired(t) # {} => t \in srvUsed
    /\ \A c, d \in CallIds :
          (c # d /\ calls[c].result = "PAIR" /\ calls[d].result = "PAIR") =>
              calls[c].pair # calls[d].pair

C7_Witness ==
    \E c, d \in CallIds :
        /\ c # d
        /\ calls[c].tok = calls[d].tok
        /\ calls[c].sawValid /\ calls[d].sawValid
        /\ calls[c].result = "PAIR"
        /\ calls[d].result = "REUSED"

\* C8: for every reset time of day and every instant the resolved window is
\* a half-open day-long interval that contains the instant; an instant lies
\* in it exactly when it resolves to the same window; the window of the
\* instant 24h later is the next one, starting where this one ends.
C8_WindowsTileTime ==
    window # NoWindow =>
        /\ window.start <= now /\ now < window.end
        /\ window.end - window.start = SecondsPerDay
        /\ \A t \in Instants(account) :
              (window.start <= t /\ t < window.end) <=> (windowFor(account, t) = window)
        /\ windowFor(account, now + SecondsPerDay) # window
        /\ windowFor(account, now + SecondsPerDay).start = window.end
        /\ windowFor(account, now - SecondsPerDay).end = window.start

C8_Witness ==
    /\ window # NoWindow
    /\ account.reset_hour = 23 /\ account.reset_minute = 59
    /\ now < ResetInstant(DateOf(now), account)
    /\ now > At(1, 0, 0, 0)

\* C9: the window starts at the reset_hour:reset_minute of the UTC date of
\* now when now is at or after that instant, and at the one of the day before
\* when now is before it; it ends at the next reset instant; the reset
\* instant itself opens its window.
C9_WindowAnchoredAtReset ==
    window # NoWindow =>
        LET secs == account.reset_hour * 3600 + account.reset_minute * 60
            today == DateOf(now) * SecondsPerDay + secs
        IN  /\ window.start % SecondsPerDay = secs
            /\ window.end % SecondsPerDay = secs
            /\ now < today => (window.end = today /\ DateOf(window.start) = DateOf(now) - 1)
            /\ now >= today => (window.start = today /\ DateOf(window.end) = DateOf(now) + 1)
            /\ now % SecondsPerDay = secs => window.start = now

C9_Witness ==
    /\ window # NoWindow
    /\ account.reset_hour = 9 /\ account.reset_minute = 30
    /\ now = At(1, 9, 30, 0)
    /\ window.start = now

\* C10: a completed task whose completed_at lies in a window before the
\* current one is RESET (flag cleared, completed_at null), or CARRIED_OVER
\* unchanged when it persists; one completed inside the current window stays
\* completed. Reset 00:00, completed 2024-01-01T23:59:00Z, classified at
\* 2024-01-02T00:00:01Z: RESET.
C10_CompletedTaskAcrossReset ==
    lastClass.status # "none" =>
        LET b == lastClass.before
            cur == windowFor(account, lastClass.at)
            prior == b.is_completed /\ windowFor(account, b.completed_at) # cur
            persists == b.due_date # NoTime /\ b.due_date > lastClass.at
        IN  /\ (prior /\ ~persists) =>
                   /\ lastClass.status = "RESET"
                   /\ ~task.is_completed
                   /\ task.completed_at = NoTime
            /\ (prior /\ persists) =>
                   /\ lastClass.status = "CARRIED_OVER"
                   /\ task = b
            /\ (b.is_completed /\ ~prior) =>
                   /\ lastClass.status # "RESET"
                   /\ task = b
            /\ (/\ account = [reset_hour |-> 0, reset_minute |-> 0]
                /\ b.is_completed
                /\ b.completed_at = At(0, 23, 59, 0)
                /\ b.due_date = NoTime
                /\ lastClass.at = At(1, 0, 0, 1)) => lastClass.status = "RESET"

C10_Witness ==
    /\ account = [reset_hour |-> 0, reset_minute |-> 0]
    /\ lastClass.before.is_completed
    /\ lastClass.before.completed_at = At(0, 23, 59, 0)
    /\ lastClass.at = At(1, 0, 0, 1)
    /\ lastClass.status = "RESET"
    /\ task.completed_at = NoTime

\* C11: a task with no due date that is not completed is classified ACTIVE,
\* and left as it is, in every reset window and at every instant.
C11_UndatedOpenTaskActive ==
    (/\ lastClass.status # "none"
     /\ ~lastClass.before.is_completed
     /\ lastClass.before.due_date = NoTime) =>
        /\ lastClass.status = "ACTIVE"
        /\ task = lastClass.before

C11_Witness ==
    /\ lastClass.status = "ACTIVE"
    /\ ~lastClass.before.is_completed
    /\ lastClass.before.due_date = NoTime
    /\ lastClass.at > At(1, 0, 0, 0)
    /\ account.reset_hour = 9

\* The spec's overdue: a due date strictly before now and not completed.
Overdue(tk, t) == tk.due_date # NoTime /\ tk.due_date < t /\ ~tk.is_completed

\* C12: the dashboard's overdue count, the analytics' overdue count, the
\* TaskItem overdue warning and the 'overdue' date filter all give the same
\* answer for every task: overdue exactly when the task has a due date
\* strictly before now and is not completed.
C12_OverdueSitesAgree ==
    view # NoView =>
        \A i \in 1..Len(tasks) :
            /\ view[i].count = Overdue(tasks[i], now)
            /\ view[i].analytics = Overdue(tasks[i], now)
            /\ view[i].warning = Overdue(tasks[i], now)
            /\ view[i].listed = Overdue(tasks[i], now)

VerifyResults ==
    {IdentityOf(u) : u \in 1..MaxIssued}
    \cup {Failure(f) : f \in {"EXPIRED", "MALFORMED", "BAD_SIGNATURE"}}

\* C13: a token issued by TokenIssuer verifies to its user's identity at
\* every instant before its exp, and is EXPIRED at every instant from its
\* exp on, give or take the leeway: EXPIRED from exp + Leeway on, and between
\* exp and exp + Leeway never another failure. Every verification, of any
\* input, returns an identity or one of the three typed failures.
C13_TokenRoundTrip ==
    verdict # NoVerdict =>
        /\ verdict.result \in VerifyResults
        /\ verdict.token \in issued =>
              LET exp == verdict.token.payload.exp
                  sub == verdict.token.payload.sub
              IN  /\ verdict.at < exp => verdict.result = IdentityOf(sub)
                  /\ verdict.at >= exp + Leeway => verdict.result = Failure("EXPIRED")
                  /\ verdict.at >= exp =>
                         verdict.result \in {IdentityOf(sub), Failure("EXPIRED")}
        /\ verdict.token \notin issued => ~verdict.result.ok

C13_Witness ==
    /\ verdict.token \in issued
    /\ verdict.token.payload.type = "access"
    /\ verdict.at = verdict.token.payload.exp + Leeway
    /\ verdict.result = Failure("EXPIRED")
    /\ \E t \in issued : t.payload.type = "access" /\ t.payload.exp > verdict.at

\* C14: a request that waits for a refresh does not wait forever: when the
\* refresh gets no response, the waiting request still settles in the end.
C14_SuspendedRequestSettles ==
    \A i \in 1..MaxReq :
        (i \in Ids /\ reqs[i].st = "suspended") ~> (i \in Ids /\ reqs[i].st # "suspended")

\* No token in localStorage or in the default header, no token and no user in
\* AuthProvider's state.
Unauthenticated ==
    /\ ls.access_token = NoToken
    /\ ls.refresh_token = NoToken
    /\ authHeader = NoToken
    /\ token = NoToken
    /\ ~user

\* The last step handled a refresh rejected with 401, or a replayed request
\* rejected again with 401.
Unrecoverable ==
    /\ lastEvent.kind = "response"
    /\ lastEvent.status = 401
    /\ (lastEvent.url = REFRESH_URL \/ reqs[lastEvent.id].root # 0)

\* C15: after an unrecoverable authentication failure the client is
\* unauthenticated (no token in any store, AuthProvider's user and token
\* null), and in no state are the stored tokens cleared while a user is
\* still signed in.
C15_FailureEndsSession ==
    /\ Unrecoverable => Unauthenticated
    /\ (ls.access_token = NoToken /\ ls.refresh_token = NoToken) => ~user

\* The last step ended a session whose access token had expired: the
\* interceptor's refresh was rejected or failed, or a request was rejected
\* with 401 and no refresh followed (it was a replay, or no refresh token was
\* stored).
SessionEnded ==
    /\ lastEvent.kind = "response"
    /\ \/ /\ lastEvent.owner = "icpt"
          /\ lastEvent.status # 200
          /\ reqs[lastEvent.id].cause = "expired"
       \/ /\ lastEvent.status = 401
          /\ lastEvent.url # REFRESH_URL
          /\ lastEvent.cause = "expired"
          /\ reqs[lastEvent.id].st = "done"

\* C16: whenever the session ends because the access token expired and could
\* not be refreshed, the client is on the sign-in page afterwards, on every
\* session-ending path of the interceptor.
C16_SessionEndGoesToSignIn ==
    SessionEnded => location = "/login"

\* C17: in one pass over the task list every task is evaluated against the
\* same reading of the clock, so two tasks with the same due date and the
\* same completion are never classified differently in one pass.
C17_OneClockReadingPerPass ==
    (pass.kind # "none" /\ pass.idx = Len(tasks)) =>
        \A i, j \in 1..Len(tasks) :
            /\ pass.clock[i] = pass.clock[j]
            /\ (/\ tasks[i].due_date = tasks[j].due_date
                /\ tasks[i].is_completed = tasks[j].is_completed)
                   => pass.out[i] = pass.out[j]

\* C18: every client update of the task list (toggleTask's optimistic update,
\* handleBulkComplete) leaves an incomplete task with completed_at null, sets
\* completed_at on the transition to completed, and leaves the completed_at
\* of a task that was already completed as it was.
C18_CompletedAtFollowsTransition ==
    [][(lastEvent'.kind = "request" /\ lastEvent'.url = TOGGLE_URL /\ reqs' # reqs) =>
          \A i \in DOMAIN tasks :
              /\ ~tasks'[i].is_completed => tasks'[i].completed_at = NoTime
              /\ (~tasks[i].is_completed /\ tasks'[i].is_completed) =>
                     tasks'[i].completed_at = now
              /\ (tasks[i].is_completed /\ tasks'[i].is_completed) =>
                     tasks'[i].completed_at = tasks[i].completed_at]_vars

\* ------------------------------------------- the token store on its own
\* setStoredToken(key, value) called in tab 1; either setItem may throw.
SetStoredToken(key, value, throwsL, throwsS) ==
    /\ LET st == setStoredToken(LevelsOf(1), key, value, throwsL, throwsS)
       IN  /\ localStore' = st.L
           /\ tabs' = [tabs EXCEPT ![1].session = st.S, ![1].memory = st.M]
    /\ lastOp' = Op("set", 1, key, value)
    /\ UNCHANGED <<storageEvents, loggedOut, storeNext>>
    /\ UNCHANGED <<clientVars, serverVars, resetVars, dashVars, tokenVars, selVars>>

\* removeStoredToken(key) called in tab 1; either removeItem may throw.
RemoveStoredToken(key, throwsL, throwsS) ==
    /\ LET st == removeStoredToken(LevelsOf(1), key, throwsL, throwsS)
       IN  /\ localStore' = st.L
           /\ tabs' = [tabs EXCEPT ![1].session = st.S, ![1].memory = st.M]
    /\ lastOp' = Op("remove", 1, key, NoToken)
    /\ UNCHANGED <<storageEvents, loggedOut, storeNext>>
    /\ UNCHANGED <<clientVars, serverVars, resetVars, dashVars, tokenVars, selVars>>

NextStore ==
    \/ \E key \in Keys, value \in 1..MaxLogins, throwsL, throwsS \in BOOLEAN :
           SetStoredToken(key, value, throwsL, throwsS)
    \/ \E key \in Keys, throwsL, throwsS \in BOOLEAN :
           RemoveStoredToken(key, throwsL, throwsS)

\* ------------------------------------------------- two tabs, one origin
\* localStorage never throws; removeItem on sessionStorage may.
InitTabs ==
    /\ InitClientIdle
    /\ InitServer
    /\ InitDashIdle
    /\ InitTokenIdle
    /\ InitResetIdle
    /\ account = [reset_hour |-> 0, reset_minute |-> 0]
    /\ now = At(0, 0, 0, 0)
    /\ InitStoreIdle
    /\ InitSelIdle

NextTabs ==
    \/ \E tab \in Tabs : StoreLogin(tab, FALSE, FALSE)
    \/ \E tab \in Tabs, throwsS \in BOOLEAN : StoreLogout(tab, FALSE, throwsS)
    \/ \E tab \in Tabs : HandleStorageChange(tab, FALSE, FALSE)
    \/ \E tab \in Tabs : CheckTokenRestoration(tab)
    \/ \E tab \in Tabs : CheckAuthEffect(tab)
    \/ \E tab \in Tabs : ReloadTab(tab)

SpecTabs == InitTabs /\ [][NextTabs]_vars

SpecStore == InitTabs /\ [][NextStore]_vars

\* ------------------------------------------- a server that rotates strictly
\* The refresh tokens the server has exchanged: each can be used once.
Rotated == {reqs[i].rt : i \in {j \in 1..Len(reqs) :
                                   reqs[j].url = REFRESH_URL /\ reqs[j].status = 200}}

\* The access token of the stored session has expired; the ones issued by a
\* refresh have not.
ExpiredAccess == 1

\* A refresh presenting a token that was not exchanged yet is answered with
\* a new pair.
RefreshAccepted(id) ==
    /\ id \in InFlight
    /\ reqs[id].url = REFRESH_URL
    /\ reqs[id].rt \notin Rotated
    /\ RespondOk(id)

\* A refresh presenting a token that was already exchanged is answered 401.
RefreshRejected(id) ==
    /\ id \in InFlight
    /\ reqs[id].url = REFRESH_URL
    /\ reqs[id].rt \in Rotated
    /\ RespondUnauthorized(id, "refresh_rejected")

\* A request carrying the expired access token is answered 401.
AccessExpired(id) ==
    /\ id \in InFlight
    /\ reqs[id].url # REFRESH_URL
    /\ reqs[id].auth = ExpiredAccess
    /\ RespondUnauthorized(id, "expired")

\* A request carrying an access token the server issued by a refresh is
\* answered 200.
AccessAccepted(id) ==
    /\ id \in InFlight
    /\ reqs[id].url # REFRESH_URL
    /\ reqs[id].auth # ExpiredAccess
    /\ RespondOk(id)

InitRotation ==
    /\ InitClientSignedIn
    /\ InitIdle

NextRotation ==
    \/ \E id \in 1..MaxReq : RefreshAccepted(id)
    \/ \E id \in 1..MaxReq : RefreshRejected(id)
    \/ \E id \in 1..MaxReq : AccessExpired(id)
    \/ \E id \in 1..MaxReq : AccessAccepted(id)
    \/ AppRequest
    \/ CheckTokenExpiration

SpecRotation == InitRotation /\ [][NextRotation]_vars

\* The requests sent for root request r: r and its replays.
SentFor(r) == {i \in Ids : i = r \/ reqs[i].root = r}

\* C19: one toggle action of the user is applied at most once on the server:
\* of the requests sent for it at most one is applied, and a replay is sent
\* only after every earlier request for it was rejected with 401, before the
\* server applied anything.
C19_ToggleAppliedAtMostOnce ==
    \A r \in Ids :
        (reqs[r].url = TOGGLE_URL /\ reqs[r].root = 0) =>
            /\ Cardinality({i \in SentFor(r) : reqs[i].applied}) <= 1
            /\ \A i \in SentFor(r) : \A j \in SentFor(r) :
                   j < i => (reqs[j].status = 401 /\ ~reqs[j].applied)

C19_Witness ==
    \E r, i, l \in Ids :
        /\ reqs[r].url = TOGGLE_URL
        /\ reqs[r].owner = "toggle"
        /\ reqs[i].root = r
        /\ reqs[i].applied
        /\ reqs[r].res = 200
        /\ reqs[l].url = TOGGLE_URL
        /\ reqs[l].status = 500
        /\ reqs[l].applied
        /\ SentFor(l) = {l}

\* The refreshes the interceptor sent for root request r: for r itself or
\* for a replay of r.
IcptRefreshesFor(r) ==
    {i \in Ids : reqs[i].owner = "icpt" /\
                 (reqs[i].parent = r \/ reqs[reqs[i].parent].root = r)}

ReplaysOf(r) == {i \in Ids : reqs[i].root = r}

\* No request has been sent for more than one interceptor refresh or more
\* than one replay, and the request a refresh was sent for carries _retry.
OneRefreshOneReplay ==
    /\ \A r \in Ids :
           reqs[r].root = 0 =>
               /\ Cardinality(IcptRefreshesFor(r)) <= 1
               /\ Cardinality(ReplaysOf(r)) <= 1
    /\ \A i \in Ids : reqs[i].owner = "icpt" => reqs[reqs[i].parent].retry

\* The step is the arrival of a 401 for a replayed request.
ReplayRejected ==
    /\ lastEvent'.kind = "response"
    /\ lastEvent' # lastEvent
    /\ lastEvent'.status = 401
    /\ reqs[lastEvent'.id].root # 0
    /\ reqs[lastEvent'.id].st = "inflight"

\* C20: for one original request the interceptor sends at most one refresh
\* and at most one replay, _retry is set on the request by the time its
\* refresh is sent, and a 401 for the replay starts no refresh and no
\* replay and clears both stored tokens and the default header.
C20_OneRefreshOneReplayPerRequest ==
    [][/\ OneRefreshOneReplay'
       /\ ReplayRejected =>
              /\ Len(reqs') = Len(reqs)
              /\ ls' = [access_token |-> NoToken, refresh_token |-> NoToken]
              /\ authHeader' = NoToken]_vars

C20_Witness ==
    \E r, f, p \in Ids :
        /\ reqs[r].root = 0
        /\ reqs[r].status = 401
        /\ reqs[f].owner = "icpt"
        /\ reqs[f].parent = r
        /\ reqs[f].status = 200
        /\ reqs[p].root = r
        /\ reqs[p].retry
        /\ reqs[p].status = 401
        /\ reqs[p].st = "done"
        /\ ls.refresh_token = NoToken
        /\ IcptRefreshesFor(r) = {f}

\* Every request has its response and every caller was answered.
AllArrived == \A i \in Ids : reqs[i].st \notin {"inflight", "suspended"}

\* Two refresh requests presented the same refresh token: they overlapped.
RefreshesOverlapped ==
    \E i, j \in RefreshIds :
        /\ i # j
        /\ reqs[i].rt = reqs[j].rt
        /\ reqs[i].st = "done"
        /\ reqs[j].st = "done"

\* C21: with the stored refresh token valid and a server that exchanges each
\* refresh token once, once every response has arrived after two overlapping
\* refreshes (two concurrent 401s, or a 401 and the periodic refresh) the
\* client holds the pair issued last, has cleared nothing and is not at /login.
C21_OverlappingRefreshesKeepSession ==
    (AllArrived /\ RefreshesOverlapped) =>
        /\ ls.access_token = nextPair - 1
        /\ ls.refresh_token = nextPair - 1
        /\ authHeader = nextPair - 1
        /\ location # "/login"

\* C22: once logout() has removed both tokens from localStorage, no
\* storage-event handler and no periodic restoration of any tab writes an
\* access or refresh token back into localStorage.
C22_LogoutNotUndone ==
    [][(loggedOut /\ localStore = NoStore /\ lastOp'.op \in {"storage", "restore"}) =>
           localStore' = NoStore]_vars

\* The toggle requests sent for task k, replays included.
TogglesOf(k) == {i \in Ids : reqs[i].url = TOGGLE_URL /\ reqs[i].data.task = k}

\* C23: once every toggle request toggleTask sent for a task has settled,
\* each one answered 200 when the server applied it and with a failure when
\* it did not, the task's displayed is_completed is the server's.
C23_DisplayMatchesServerAfterToggles ==
    \A i \in DOMAIN tasks :
        LET k == tasks[i].id
        IN  (/\ TogglesOf(k) # {}
             /\ \A j \in TogglesOf(k) :
                    /\ reqs[j].owner = "toggle"
                    /\ reqs[j].st \in {"done", "replayed"}
                    /\ reqs[j].applied <=> reqs[j].status = 200)
            => tasks[i].is_completed = srvTasks[k].is_completed

\* The requests handleBulkComplete sent in the call numbered g.
BulkMembers(g) ==
    {i \in Ids : reqs[i].owner = "bulk" /\ reqs[i].root = 0 /\ reqs[i].data.group = g}

\* C24: after a handleBulkComplete whose requests all succeeded, every
\* selected task that no other call has toggled is completed in the displayed
\* list and on the server, whether or not it was completed before.
C24_BulkCompleteCompletes ==
    \A g \in Ids :
        (BulkMembers(g) # {} /\ \A i \in BulkMembers(g) : reqs[i].res = 200) =>
            \A i \in BulkMembers(g) :
                LET k == reqs[i].data.task
                IN  (\A j \in TogglesOf(k) : j \in BulkMembers(g) \/ reqs[j].root \in BulkMembers(g))
                    => /\ srvTasks[k].is_completed
                       /\ \A x \in DOMAIN tasks : tasks[x].id = k => tasks[x].is_completed

\* C25: when every request issued is answered or fails in the end, the
\* loading state that starts when AuthProvider mounts ends: isLoading
\* becomes false.
C25_LoadingEnds == isLoading ~> ~isLoading

C25_Witness ==
    /\ ~isLoading
    /\ token = NoToken
    /\ location = "/login"
    /\ \E i \in Ids :
          /\ reqs[i].owner = "checkAuth"
          /\ reqs[i].root = 0
          /\ reqs[i].res = 401
          /\ \A j \in Ids : reqs[j].st # "aborted"

\* The login() call that sent GET /api/auth/me request m: the last POST
\* /api/auth/login before it.
LoginOf(m) ==
    CHOOSE l \in 1..m :
        /\ reqs[l].owner = "login"
        /\ \A l2 \in 1..m : reqs[l2].owner = "login" => l2 <= l

\* C26: in the step in which the promise of login() rejects because its
\* GET /api/auth/me failed, neither token of the pair that login stored is
\* left in localStorage and the token state is not that access token.
C26_RejectedLoginStoresNothing ==
    [][\A m \in Ids :
          (/\ reqs[m].owner = "loginMe"
           /\ reqs[m].root = 0
           /\ reqs[m].res = 0
           /\ reqs'[m].res \notin {0, 200}) =>
              LET pair == reqs[LoginOf(m)].respAccess
              IN  /\ ls'.access_token # pair
                  /\ ls'.refresh_token # pair
                  /\ token' # pair]_vars

\* C27: right after setStoredToken(key, v), getStoredToken(key) is v, and
\* right after removeStoredToken(key) it is null, whether or not a write or
\* a removal on localStorage or sessionStorage threw.
C27_StoreReadsBackLastWrite ==
    /\ lastOp.op = "set" =>
           getStoredToken(LevelsOf(lastOp.tab), lastOp.key) = lastOp.value
    /\ lastOp.op = "remove" =>
           getStoredToken(LevelsOf(lastOp.tab), lastOp.key) = NoToken

\* C28: the selection stays within the list passed to BulkOperations: every
\* selected id is an id of the displayed (filtered) tasks, "all selected" is
\* reported only when the selection is exactly the displayed ids, and a bulk
\* operation is called with ids of displayed tasks only.
C28_SelectionWithinDisplayed ==
    /\ \A i \in DOMAIN selectedTasks :
          includes(allTaskIds(PropTasks), selectedTasks[i])
    /\ isAllSelected(PropTasks)
          => {selectedTasks[i] : i \in DOMAIN selectedTasks}
                = {PropTasks[i].id : i \in DOMAIN PropTasks}
    /\ \A i \in DOMAIN bulk.ids : includes(bulk.shown, bulk.ids[i])

\* What App renders for the current state: the spinner while isLoading, else
\* the element of the route that matches the path.
Page ==
    IF isLoading THEN "LoadingSpinner"
    ELSE IF location = "/login" THEN IF user THEN "Navigate /dashboard" ELSE "LoginPage"
    ELSE IF location = "/register" THEN IF user THEN "Navigate /dashboard" ELSE "RegisterPage"
    ELSE IF location = "/dashboard" THEN IF user THEN "DashboardPage" ELSE "Navigate /login"
    ELSE IF user THEN "Navigate /dashboard" ELSE "Navigate /login"

====
